---- MODULE Spec2Model ----
(***************************************************************************)
(* A model of litestar/typing.py: FieldDefinition, its constructors        *)
(* (from_annotation, from_kwarg, from_parameter), its derived properties,  *)
(* and the metadata parsers (_parse_metadata, _traverse_metadata).         *)
(*                                                                         *)
(* Every Python value is one record shape, PyObj:                          *)
(*   k   the kind of value ("cls", "gen", "union", "Annotated", "obj" ...) *)
(*   n   its name (class name, origin name, literal spelling)              *)
(*   a   its type arguments, a sequence of PyObj                           *)
(*   m   the metadata of an Annotated alias, a sequence of PyObj           *)
(*   at  the attributes set on it, a dictionary                            *)
(*   ex  its "extra" attribute, a dictionary                               *)
(* A dictionary is a set of <<key, value>> pairs, one pair for a key.      *)
(* Primitive values (numbers, strings, None) are spelled as strings;       *)
(* "Absent" is what reading a missing key or attribute gives.              *)
(***************************************************************************)
EXTENDS Integers, Sequences, FiniteSets, TLC

VARIABLES
    pc,             \* "call": a call is about to run; "returned"; "queried"
    op,             \* the function called
    arg_annotation, \* from_annotation / from_kwarg: the annotation
    arg_kwargs,     \* from_annotation: the keyword arguments
    arg_fk,         \* from_kwarg: its parameters after the annotation
    arg_parameter,  \* from_parameter: the inspect.Parameter (name, default)
    arg_hints,      \* from_parameter: fn_type_hints[parameter.name], or NotPassed
                    \* when fn_type_hints has no such key
    arg_value,      \* _parse_metadata: the metadata value
    arg_metadata,   \* _traverse_metadata: the metadata sequence
    arg_is_seq,     \* is_sequence_container
    arg_extra,      \* the extra mapping handed to the parsers
    ret_field,      \* the FieldDefinition returned, or NoField
    ret_raised,     \* the exception raised, or "none"
    ret_dict,       \* the dictionary a parser returned
    ret_obj,        \* the type make_non_optional_union returned
    ret_extra,      \* the caller's extra mapping after the call
    ret_value,      \* _parse_metadata: the value after the call
    ret_metadata,   \* _traverse_metadata: the metadata after the call
    arg_cl,         \* is_subclass_of: the classes asked about
    ret_bool,       \* what is_subclass_of answered
    ret_props       \* the derived properties read from the field returned

vars == <<pc, op, arg_annotation, arg_kwargs, arg_fk, arg_parameter, arg_hints,
          arg_value, arg_metadata, arg_is_seq, arg_extra,
          ret_field, ret_raised, ret_dict, ret_obj, ret_extra, ret_value,
          ret_metadata, arg_cl, ret_bool, ret_props>>

----------------------------------------------------------------------------
(* Bounds of the model.                                                    *)

\* the longest union built as an input annotation
MaxUnion == 3
\* the longest metadata sequence handed to _traverse_metadata
MaxMeta == 2

----------------------------------------------------------------------------
(* Dictionaries and attribute bags.                                        *)

Absent == "Absent"

\* keys of the dictionary _parse_metadata builds (lines 78-97)
ConstraintKeys ==
    {"gt", "ge", "lt", "le", "multiple_of", "min_length", "max_length",
     "description", "examples", "title", "lower_case", "upper_case",
     "pattern", "min_items", "max_items", "const"}

\* keys an "extra" mapping may also carry
ExtraOnlyKeys == {"example", "foo", "kwarg_definition", "default", "header"}

DictKeys == ConstraintKeys \cup ExtraOnlyKeys

\* attribute names read with getattr, and the fields of a KwargDefinition
AttrKeys ==
    ConstraintKeys \cup {"to_lower", "to_upper", "regex", "default", "required"}

EmptyDict == {}

Keys(d) == {p[1] : p \in d}

\* d.get(key, Absent)
Get(d, key) == IF key \in Keys(d) THEN (CHOOSE p \in d : p[1] = key)[2] ELSE Absent

\* the dictionary d with d[key] = v
Put(d, key, v) == {p \in d : p[1] # key} \cup {<<key, v>>}

\* the dictionary of the keys in ks, each with the value val[key], the keys
\* whose value is Absent left out
MkDict(ks, val) == {<<key, val[key]>> : key \in {x \in ks : val[x] # Absent}}

\* dict.update / {**d, **e}: the keys of e replace those of d
Update(d, e) == {p \in d : p[1] \notin Keys(e)} \cup e

\* dict.pop(key, None): the dictionary without the key
Pop(d, k0) == {p \in d : p[1] # k0}

\* {k: v for k, v in d.items() if v is not None}
DropNone(d) == {p \in d : p[2] # "None"}

\* bool(v) of a primitive spelling; the class Empty is truthy
Truthy(v) == v \notin {Absent, "None", "0", "False", "[]"}


----------------------------------------------------------------------------
(* Python values.                                                          *)

Obj(k, n, a, m, at, ex) == [k |-> k, n |-> n, a |-> a, m |-> m, at |-> at, ex |-> ex]

Plain(k, n) == Obj(k, n, <<>>, <<>>, EmptyDict, EmptyDict)

\* a class object
Cls(n) == Plain("cls", n)
\* a typing special form used as an origin (Union, Annotated, Literal ...)
Form(n) == Plain("form", n)
\* a plain value: None, Ellipsis, a number
Val(n) == Plain("val", n)

NoneV == Val("None")
EllipsisV == Val("Ellipsis")
\* litestar.types.Empty, a sentinel class
EmptyT == Cls("Empty")
AnyT == Plain("any", "Any")
AnyStrT == Plain("typevar", "AnyStr")
TypeVarT == Plain("typevar", "T")
NoneTypeT == Cls("NoneType")
\* marks a keyword argument that was not passed
NotPassed == Plain("notpassed", "")

\* X[args] for a generic class or typing alias with origin n
Gen(n, a) == Obj("gen", n, a, <<>>, EmptyDict, EmptyDict)
\* the parameter list of Callable[[...], r]
PList(a) == Obj("plist", "", a, <<>>, EmptyDict, EmptyDict)
\* a str instance: a forward reference, the argument of Literal["a"], a
\* string among the metadata
Str(n) == Plain("str", n)

\* an attribute bag: an annotated_types constraint, a pydantic FieldInfo
Bag(n, at, ex) == Obj("obj", n, <<>>, <<>>, at, ex)
\* annotated_types.Predicate(func)
Predicate(func) == Plain("pred", func)

\* the fields of a KwargDefinition the model keeps, with their defaults
KwargDefaults(model) ==
    [key \in AttrKeys |->
        CASE key = "default" -> "Empty"
          [] key = "required" -> IF model = "ParameterKwarg" THEN "None" ELSE Absent
          [] key \in ConstraintKeys -> "None"
          [] OTHER -> Absent]

\* the attributes a pydantic FieldInfo has when none is set
FieldInfoDefaults ==
    [key \in AttrKeys |->
        CASE key \in {"gt", "ge", "lt", "le", "multiple_of", "min_length", "max_length",
                      "description", "title", "regex", "min_items", "max_items", "const"} ->
                "None"
          [] key = "default" -> "Undefined"
          [] OTHER -> Absent]

\* the value of an attribute that is not set on the instance: the default
\* of its class, Absent when the class has no such attribute
ClassDefault(v, name) ==
    CASE v.k = "kd" -> KwargDefaults(v.n)[name]
      [] v.k = "dep" -> IF name = "default" THEN "Empty" ELSE Absent
      [] v.k = "obj" /\ v.n = "FieldInfo" -> FieldInfoDefaults[name]
      [] v.k = "str" -> IF name = "title" THEN "<method str.title>" ELSE Absent
      [] v.k = "cls" /\ v.n = "ConInt" ->
            IF name \in {"gt", "ge", "lt", "le", "multiple_of"} THEN "None" ELSE Absent
      [] OTHER -> Absent

\* the attribute, Absent when the value has none of that name
Attr(v, name) == IF name \in Keys(v.at) THEN Get(v.at, name) ELSE ClassDefault(v, name)

\* getattr(value, name, default)
GetAttr(v, name, default) == IF Attr(v, name) # Absent THEN Attr(v, name) ELSE default

----------------------------------------------------------------------------
(* The typing module: origins, arguments, Union and Annotated.             *)

\* typing.get_origin
GetOrigin(t) ==
    CASE t.k = "gen" -> IF t.n = "Literal" THEN Form("Literal") ELSE Cls(t.n)
      [] t.k = "union" -> Form("Union")
      [] t.k \in {"Annotated", "Required", "NotRequired"} -> Form(t.k)
      [] OTHER -> NoneV

\* typing.get_args: Annotated[X, m1, m2] gives (X, m1, m2)
GetArgs(t) ==
    CASE t.k \in {"gen", "union", "Required", "NotRequired"} -> t.a
      [] t.k = "Annotated" -> t.a \o t.m
      [] OTHER -> <<>>

RECURSIVE Flatten(_)
\* Union[...] flattens the unions among its arguments
Flatten(s) ==
    IF s = <<>> THEN <<>>
    ELSE (IF Head(s).k = "union" THEN Head(s).a ELSE <<Head(s)>>) \o Flatten(Tail(s))

RECURSIVE Dedupe(_, _)
\* Union[...] keeps the first of equal arguments
Dedupe(s, seen) ==
    IF s = <<>> THEN <<>>
    ELSE IF \E i \in 1..Len(seen) : seen[i] = Head(s)
         THEN Dedupe(Tail(s), seen)
         ELSE <<Head(s)>> \o Dedupe(Tail(s), Append(seen, Head(s)))

\* Union of the distinct types u: of one type, that type itself
UnionOf(u) ==
    IF Len(u) = 0 THEN Plain("error", "TypeError")
    ELSE IF Len(u) = 1 THEN u[1]
    ELSE Obj("union", "", u, <<>>, EmptyDict, EmptyDict)

\* typing.Union[args]: flattened, without duplicates. The duplicates are
\* found by hashing, so an argument that is a list (the parameter list that
\* get_args gives for a Callable) is a TypeError, as a Union of no types is
MkUnion(s) ==
    IF \E i \in 1..Len(s) : s[i].k = "plist" THEN Plain("error", "TypeError")
    ELSE UnionOf(Dedupe(Flatten(s), <<>>))

\* Optional[X] is Union[X, None]
MkOptional(t) == MkUnion(<<t, NoneTypeT>>)

\* Annotated[X, *m]: Annotated[Annotated[X, a], b] is Annotated[X, a, b]
MkAnnotated(t, m) ==
    IF t.k = "Annotated"
    THEN Obj("Annotated", "", t.a, t.m \o m, EmptyDict, EmptyDict)
    ELSE Obj("Annotated", "", <<t>>, m, EmptyDict, EmptyDict)

\* Required[X] and NotRequired[X]
Wrap(form, t) == Obj(form, "", <<t>>, <<>>, EmptyDict, EmptyDict)

\* inspect.isclass: typing.Any is a class too (Python 3.11 and later)
IsClass(t) == t.k = "cls" \/ t = AnyT

\* the proper superclasses of each class of the model
Supers(n) ==
    CASE n \in {"str", "bytes", "list", "tuple"} -> {"Sequence", "Collection", "Iterable"}
      [] n = "dict" -> {"Mapping", "Collection", "Iterable"}
      [] n = "ImmutableState" -> {"Mapping", "Collection", "Iterable", "Generic"}
      [] n = "State" -> {"ImmutableState", "Mapping", "Collection", "Iterable", "Generic"}
      [] n \in {"Sequence", "Mapping"} -> {"Collection", "Iterable"}
      [] n = "Collection" -> {"Iterable"}
      [] n = "Foo" -> {"Generic"}
      [] n = "ConInt" -> {"int", "ConstrainedInt"}
      [] OTHER -> {}

\* issubclass(c, cls) for a class c and a set (tuple) of class names
IsSubclass(c, cls) == c.n \in cls \/ Supers(c.n) \cap cls # {}

----------------------------------------------------------------------------
(* litestar.utils.typing and litestar.utils.predicates, which typing.py    *)
(* imports (lines 15-30).                                                  *)

\* litestar.types.builtin_types.UnionTypes
UnionTypes == {Form("Union")}

\* litestar.utils.typing.wrapper_type_set
WrapperTypeSet == {Form("Annotated"), Form("Required"), Form("NotRequired")}

RECURSIVE unwrap_loop(_, _, _)
\* the loop of unwrap_annotation: peel one wrapper, collect its metadata
unwrap_loop(t, meta, wrappers) ==
    IF GetOrigin(t) \in WrapperTypeSet
    THEN unwrap_loop(GetArgs(t)[1], meta \o Tail(GetArgs(t)), wrappers \cup {GetOrigin(t).n})
    ELSE [annotation |-> t, metadata |-> meta, wrappers |-> wrappers]

\* unwrap_annotation(annotation) -> (annotation, metadata, wrappers)
unwrap_annotation(t) == unwrap_loop(t, <<>>, {})

\* instantiable_type_mapping.get(origin, origin)
InstantiableOf(o) ==
    CASE o = Cls("Sequence") -> Cls("list")
      [] o = Cls("Mapping") -> Cls("dict")
      [] OTHER -> o

get_instantiable_origin(origin, t) == IF origin = NoneV THEN NoneV ELSE InstantiableOf(origin)

\* safe_generic_origin_map.get(origin, origin)
get_safe_generic_origin(origin, t) ==
    IF origin.k = "cls" /\ origin.n \in {"list", "dict", "tuple"} THEN Form(origin.n)
    ELSE origin

\* get_origin_or_inner_type: the origin, looking through the wrappers
get_origin_or_inner_type(t) ==
    LET origin == GetOrigin(t)
        inner == unwrap_annotation(t).annotation
    IN  InstantiableOf(IF origin \in WrapperTypeSet THEN GetOrigin(inner) ELSE origin)

\* issubclass(x, cls), where a TypeError (x is no class) is caught as False
IsSubclassOrFalse(x, cls) == IsClass(x) /\ IsSubclass(x, cls)

\* origin or annotation
OriginOr(t) == IF get_origin_or_inner_type(t) # NoneV THEN get_origin_or_inner_type(t) ELSE t

is_class_and_subclass(t, cls) ==
    IF get_origin_or_inner_type(t) = NoneV /\ ~IsClass(t) THEN FALSE
    ELSE IsSubclassOrFalse(OriginOr(t), cls)

SequenceTypes == {"tuple", "list", "set", "frozenset", "deque", "Sequence"}

is_non_string_sequence_fn(t) ==
    IF get_origin_or_inner_type(t) = NoneV /\ ~IsClass(t) THEN FALSE
    ELSE /\ IsClass(OriginOr(t))
         /\ ~IsSubclass(OriginOr(t), {"str", "bytes"})
         /\ IsSubclass(OriginOr(t), SequenceTypes)

is_non_string_iterable_fn(t) ==
    IF get_origin_or_inner_type(t) = NoneV /\ ~IsClass(t) THEN FALSE
    ELSE /\ IsClass(OriginOr(t))
         /\ ~IsSubclass(OriginOr(t), {"str", "bytes"})
         /\ \/ IsSubclass(OriginOr(t), {"Iterable"})
            \/ is_non_string_sequence_fn(t)
            \/ is_non_string_sequence_fn(get_origin_or_inner_type(t))

is_any_fn(t) ==
    \/ t = AnyT
    \/ /\ get_origin_or_inner_type(t) \in UnionTypes
       /\ \E i \in 1..Len(GetArgs(t)) : GetArgs(t)[i] = AnyT

is_generic_fn(t) == is_class_and_subclass(t, {"Generic"})

is_annotated_type(t) == t.k = "Annotated"

is_pydantic_constrained_field(t) == is_class_and_subclass(t, {"ConstrainedInt"})

\* [tp for tp in s if tp is not NoneType]
RECURSIVE WithoutNone(_)
WithoutNone(s) ==
    IF s = <<>> THEN <<>>
    ELSE (IF Head(s) = NoneTypeT THEN <<>> ELSE <<Head(s)>>) \o WithoutNone(Tail(s))

\* make_non_optional_union: Union[tuple(tp for tp in get_args(annotation) if tp is not NoneType)],
\* the TypeError object when Union raises
make_non_optional_union(t) == MkUnion(WithoutNone(GetArgs(t)))

----------------------------------------------------------------------------
(* The metadata parsers (lines 37-141).                                    *)

\* [Example(value=example)]
SingleExample(e) ==
    CASE e = "e1" -> "[Example(e1)]"
      [] e = "e2" -> "[Example(e2)]"
      [] OTHER -> "[Example(other)]"

\* [Example(value=example) for example in examples]
ExampleList(es) ==
    CASE es = "[e1]" -> "[Example(e1)]"
      [] es = "[e2]" -> "[Example(e2)]"
      [] es = "[e1,e2]" -> "[Example(e1),Example(e2)]"
      [] OTHER -> "[Example(other)]"

\* lines 37-53
_unpack_predicate(v) ==
    IF v.k # "pred" THEN EmptyDict
    ELSE CASE v.n = "str.islower" -> Put(EmptyDict, "lower_case", "True")
           [] v.n = "str.isupper" -> Put(EmptyDict, "upper_case", "True")
           [] v.n = "str.isascii" -> Put(EmptyDict, "pattern", "[[:ascii:]]")
           [] v.n = "str.isdigit" -> Put(EmptyDict, "pattern", "[[:digit:]]")
           [] OTHER -> EmptyDict

\* line 67: extra or getattr(value, "extra", None) or {}
ChosenExtra(v, ext) ==
    IF Keys(ext) # {} THEN ext
    ELSE IF Keys(v.ex) # {} THEN v.ex
    ELSE EmptyDict

\* lines 68-73: the example list, after extra.pop("example", None)
example_list(v, ext) ==
    IF Truthy(Get(ChosenExtra(v, ext), "example")) THEN SingleExample(Get(ChosenExtra(v, ext), "example"))
    ELSE IF Truthy(GetAttr(v, "examples", "None")) THEN ExampleList(GetAttr(v, "examples", "None"))
    ELSE "None"

\* MinItemsLen without the fall back to min_length
MinItemsOnly(v) == GetAttr(v, "min_items", "None")

\* lines 91-93: min_items of a sequence container
MinItemsLen(v) == GetAttr(v, "min_items", GetAttr(v, "min_length", "None"))

\* lines 94-96: max_items of a sequence container
MaxItemsLen(v) == GetAttr(v, "max_items", GetAttr(v, "max_length", "None"))

\* lines 78-97: the dictionary before **extra and before the None filter
BaseConstraints(v, is_seq, ext) ==
    MkDict(ConstraintKeys, [key \in ConstraintKeys |->
        CASE key \in {"gt", "ge", "lt", "le", "multiple_of", "description", "title"} ->
                GetAttr(v, key, "None")
          [] key = "min_length" -> IF is_seq THEN "None" ELSE GetAttr(v, "min_length", "None")
          [] key = "max_length" -> IF is_seq THEN "None" ELSE GetAttr(v, "max_length", "None")
          [] key = "examples" -> example_list(v, ext)
          [] key = "lower_case" -> GetAttr(v, "to_lower", "None")
          [] key = "upper_case" -> GetAttr(v, "to_upper", "None")
          [] key = "pattern" -> GetAttr(v, "regex", GetAttr(v, "pattern", "None"))
          [] key = "min_items" -> IF is_seq THEN MinItemsLen(v) ELSE "None"
          [] key = "max_items" -> IF is_seq THEN MaxItemsLen(v) ELSE "None"
          [] OTHER -> IF GetAttr(v, "const", "None") # "None" THEN "True" ELSE "False"])

\* lines 56-101: the dictionary returned
_parse_metadata(v, is_seq, ext) ==
    DropNone(Update(BaseConstraints(v, is_seq, ext), Pop(ChosenExtra(v, ext), "example")))

\* the caller's extra mapping after _parse_metadata: line 68 pops "example"
\* from it when it is the mapping chosen at line 67
ExtraAfterParse(v, ext) == IF Keys(ext) # {} THEN Pop(ext, "example") ELSE ext

\* the value after _parse_metadata: line 68 pops "example" from its own
\* extra mapping when that is the mapping chosen at line 67
AfterParse(v, ext) == IF Keys(ext) = {} THEN [v EXCEPT !.ex = Pop(v.ex, "example")] ELSE v

\* line 119: [v for v in get_args(value) if v is not None]
RECURSIVE NotNone(_)
NotNone(s) ==
    IF s = <<>> THEN <<>>
    ELSE (IF Head(s) = NoneV THEN <<>> ELSE <<Head(s)>>) \o NotNone(Tail(s))

RECURSIVE TraverseLoopFirstWins(_, _, _, _)
\* TraverseLoop with the merge reversed: a key already set is kept
TraverseLoopFirstWins(meta, is_seq, ext, acc) ==
    IF meta = <<>> THEN [constraints |-> acc, extra |-> ext]
    ELSE LET v == Head(meta)
             type_args == NotNone(GetArgs(v))
         IN  IF is_annotated_type(v) /\ type_args # <<>>
             THEN IF Len(type_args) > 1
                  THEN LET inner == TraverseLoopFirstWins(Tail(type_args), is_seq, ext, EmptyDict)
                       IN  TraverseLoopFirstWins(Tail(meta), is_seq, inner.extra,
                                                 Update(inner.constraints, acc))
                  ELSE TraverseLoopFirstWins(Tail(meta), is_seq, ext, acc)
             ELSE IF Keys(_unpack_predicate(v)) # {}
             THEN TraverseLoopFirstWins(Tail(meta), is_seq, ext,
                                        Update(_unpack_predicate(v), acc))
             ELSE TraverseLoopFirstWins(Tail(meta), is_seq, ExtraAfterParse(v, ext),
                                        Update(_parse_metadata(v, is_seq, ext), acc))

RECURSIVE TraverseLoop(_, _, _, _)
\* lines 118-130: the loop, carrying the constraints merged so far and the
\* extra mapping as the items before have left it
TraverseLoop(meta, is_seq, ext, acc) ==
    IF meta = <<>> THEN [constraints |-> acc, extra |-> ext]
    ELSE LET v == Head(meta)
             type_args == NotNone(GetArgs(v))
         IN  IF is_annotated_type(v) /\ type_args # <<>>
             THEN IF Len(type_args) > 1
                  THEN LET inner == TraverseLoop(Tail(type_args), is_seq, ext, EmptyDict)
                       IN  TraverseLoop(Tail(meta), is_seq, inner.extra,
                                        Update(acc, inner.constraints))
                  ELSE TraverseLoop(Tail(meta), is_seq, ext, acc)
             ELSE IF Keys(_unpack_predicate(v)) # {}
             THEN TraverseLoop(Tail(meta), is_seq, ext, Update(acc, _unpack_predicate(v)))
             ELSE TraverseLoop(Tail(meta), is_seq, ExtraAfterParse(v, ext),
                               Update(acc, _parse_metadata(v, is_seq, ext)))

\* lines 104-130
_traverse_metadata(meta, is_seq, ext) == TraverseLoop(meta, is_seq, ext, EmptyDict).constraints

\* the caller's extra mapping after _traverse_metadata
ExtraAfterTraverse(meta, is_seq, ext) == TraverseLoop(meta, is_seq, ext, EmptyDict).extra

RECURSIVE AfterTraverse(_, _, _)
RECURSIVE AfterAnnotated(_, _, _, _)

\* the metadata after _traverse_metadata, and the extra mapping: every
\* value handed to _parse_metadata is as that call leaves it. nested says
\* that meta is the metadata of an Annotated item, whose None are skipped
AfterTraverse(meta, ext, nested) ==
    IF meta = <<>> THEN [values |-> <<>>, extra |-> ext]
    ELSE IF Head(meta).k = "Annotated"
    THEN AfterAnnotated(Head(meta), AfterTraverse(Head(meta).m, ext, TRUE), Tail(meta), nested)
    ELSE IF (nested /\ Head(meta) = NoneV) \/ Keys(_unpack_predicate(Head(meta))) # {}
    THEN [AfterTraverse(Tail(meta), ext, nested) EXCEPT !.values = <<Head(meta)>> \o @]
    ELSE [AfterTraverse(Tail(meta), ExtraAfterParse(Head(meta), ext), nested)
             EXCEPT !.values = <<AfterParse(Head(meta), ext)>> \o @]

\* lines 122-125: an Annotated item after the traversal of its metadata
AfterAnnotated(v, inner, rest, nested) ==
    [AfterTraverse(rest, inner.extra, nested) EXCEPT !.values = <<[v EXCEPT !.m = inner.values]>> \o @]

----------------------------------------------------------------------------
(* litestar.params: KwargDefinition (ParameterKwarg, BodyKwarg) and        *)
(* DependencyKwarg instances.                                              *)

\* k in dir(model): the fields of KwargDefinition and those of the model
InDir(key, model) ==
    key \in {"examples", "external_docs", "content_encoding", "default", "title",
             "description", "const", "gt", "ge", "lt", "le", "multiple_of", "min_items",
             "max_items", "min_length", "max_length", "pattern", "lower_case",
             "upper_case", "format", "enum", "read_only", "is_constrained"}
        \cup (IF model = "ParameterKwarg"
              THEN {"annotation", "header", "cookie", "query", "required"}
              ELSE {"media_type", "multipart_form_part_limit"})

\* model(**kw)
NewKwarg(model, kw) == Obj("kd", model, <<>>, <<>>, kw, EmptyDict)

\* KwargDefinition instances hold the attributes given to them; the others
\* read as the defaults of the class
KwargWith(model, required, default) ==
    Obj("kd", model, <<>>, <<>>,
        {<<"required", required>> : x \in {1} \cap {IF required = "None" THEN 0 ELSE 1}}
            \cup {<<"default", default>> : x \in {1} \cap {IF default = "Empty" THEN 0 ELSE 1}},
        EmptyDict)

ParameterKwarg(required, default) == KwargWith("ParameterKwarg", required, default)

BodyKwarg(default) == KwargWith("BodyKwarg", "None", default)

DependencyKwarg(default) ==
    Obj("dep", "DependencyKwarg", <<>>, <<>>,
        {<<"default", default>> : x \in {1} \cap {IF default = "Empty" THEN 0 ELSE 1}},
        EmptyDict)

\* isinstance(v, (KwargDefinition, DependencyKwarg))
IsKwargOrDependency(v) == v.k \in {"kd", "dep"}

\* isinstance(v, KwargDefinition)
IsKwargDefinition(v) == v.k = "kd"

\* isinstance(v, ParameterKwarg)
IsParameterKwarg(v) == v.k = "kd" /\ v.n = "ParameterKwarg"

\* isinstance(v, FieldInfo)
IsFieldInfo(v) == v.k = "obj" /\ v.n = "FieldInfo"

\* isinstance(v, AbstractDTOFactory)
IsDTOFactory(v) == v.k = "obj" /\ v.n = "AbstractDTOFactory"

\* a primitive spelling as a Python value
ValueOf(prim) == IF prim = "Empty" THEN EmptyT ELSE Val(prim)

\* kwarg_definition.default
DefaultOf(kd) == ValueOf(Attr(kd, "default"))

\* an extra mapping holds its "kwarg_definition" under a spelling
KwargOfSpelling(sp) ==
    CASE sp = "ParameterKwarg(required=False)" -> ParameterKwarg("False", "Empty")
      [] sp = "ParameterKwarg(default=1)" -> ParameterKwarg("None", "1")
      [] OTHER -> BodyKwarg("Empty")

RECURSIVE FirstWhereKwarg(_, _)
\* next(v for v in s if isinstance(v, ...)): deps says whether a
\* DependencyKwarg counts
FirstWhereKwarg(s, deps) ==
    IF (IF deps THEN IsKwargOrDependency(Head(s)) ELSE IsKwargDefinition(Head(s)))
    THEN Head(s)
    ELSE FirstWhereKwarg(Tail(s), deps)

RECURSIVE WithoutKwargs(_)
\* line 412: tuple(v for v in metadata if not isinstance(v, (KwargDefinition, DependencyKwarg)))
WithoutKwargs(s) ==
    IF s = <<>> THEN <<>>
    ELSE (IF IsKwargOrDependency(Head(s)) THEN <<>> ELSE <<Head(s)>>) \o WithoutKwargs(Tail(s))

\* lines 139-141: the traversal's result split by dir(model)
SplitByModel(model, result) ==
    [kwarg_definition |->
        IF \E p \in result : InDir(p[1], model)
        THEN NewKwarg(model, {p \in result : InDir(p[1], model)})
        ELSE NoneV,
     extra |-> {p \in result : ~InDir(p[1], model)}]

\* lines 133-141: (kwarg_definition, extra)
_create_metadata_from_type(meta, model, t, ext) ==
    SplitByModel(model, _traverse_metadata(meta, is_non_string_sequence_fn(t), ext))

\* lines 213-225: which return statement of _extract_metadata is reached
ExtractCase(t, default, meta) ==
    IF IsFieldInfo(default) THEN "default"
    ELSE IF is_pydantic_constrained_field(t) \/ IsDTOFactory(t) THEN "annotation"
    ELSE IF \E i \in 1..Len(GetArgs(t)) : IsKwargDefinition(GetArgs(t)[i]) THEN "args"
    ELSE IF meta # <<>> THEN "metadata"
    ELSE "nothing"

\* the metadata sequence handed to _create_metadata_from_type at lines 214, 217, 223
ExtractSource(how, t, default, meta) ==
    CASE how = "default" -> <<default>>
      [] how = "annotation" -> <<t>>
      [] OTHER -> meta

\* lines 206-225, given the return statement reached
ExtractWith(how, t, name, default, meta, ext) ==
    CASE how = "args" -> [kwarg_definition |-> FirstWhereKwarg(GetArgs(t), FALSE), extra |-> ext]
      [] how = "nothing" -> [kwarg_definition |-> NoneV, extra |-> EmptyDict]
      [] OTHER -> _create_metadata_from_type(ExtractSource(how, t, default, meta),
                     IF name = "data" THEN "BodyKwarg" ELSE "ParameterKwarg", t, ext)

\* lines 206-225: (kwarg_definition, extra)
_extract_metadata(t, name, default, meta, ext) ==
    ExtractWith(ExtractCase(t, default, meta), t, name, default, meta, ext)

----------------------------------------------------------------------------
(* FieldDefinition (lines 144-192) and its constructors (lines 386-516).   *)

FieldDefinition(raw, t, type_wrappers, origin, args, meta, instantiable_origin, safe_generic_origin, inner_types, default, ext, kwarg_definition, name) ==
    [raw |-> raw, annotation |-> t, type_wrappers |-> type_wrappers, origin |-> origin,
     args |-> args, metadata |-> meta, instantiable_origin |-> instantiable_origin,
     safe_generic_origin |-> safe_generic_origin, inner_types |-> inner_types,
     default |-> default, extra |-> ext, kwarg_definition |-> kwarg_definition,
     name |-> name]

\* **kwargs: the names passed, and the value of each (read only when passed)
NoKwargs ==
    [passed |-> {}, name |-> "", default |-> NotPassed, kwarg_definition |-> NotPassed,
     extra |-> EmptyDict, inner_types |-> <<>>, raw |-> NotPassed, annotation |-> NotPassed,
     origin |-> NotPassed, args |-> <<>>, metadata |-> <<>>, type_wrappers |-> {}]

\* lines 227-234
has_default(f) == f.default # EmptyT /\ f.default # EllipsisV

\* bool(x) of a keyword value: None and a missing value are falsy
TruthyObj(x) == x # NotPassed /\ x # NoneV

\* lines 405-422: which branch fills kwarg_definition
KwargBranch(meta, kw) ==
    IF "kwarg_definition" \in kw.passed /\ TruthyObj(kw.kwarg_definition) THEN "given"
    ELSE IF "default" \in kw.passed /\ IsKwargOrDependency(kw.default) THEN "default"
    ELSE IF \E i \in 1..Len(meta) : IsKwargOrDependency(meta[i]) THEN "metadata"
    ELSE IF "extra" \in kw.passed /\ "kwarg_definition" \in Keys(kw.extra) THEN "extra"
    ELSE "extract"

\* line 403: args = () if origin is abc.Callable else get_args(unwrapped)
ArgsOf(unwrapped) ==
    IF GetOrigin(unwrapped) = Cls("Callable") THEN <<>> ELSE GetArgs(unwrapped)

\* WithKwargDefault without the has_default test
WithKwargDefaultAlways(instance) ==
    IF TruthyObj(instance.kwarg_definition)
    THEN [instance EXCEPT !.default = DefaultOf(instance.kwarg_definition)]
    ELSE instance

\* lines 439-442: the default of the kwarg_definition stands in for a missing one
WithKwargDefault(instance) ==
    IF ~has_default(instance) /\ TruthyObj(instance.kwarg_definition)
    THEN [instance EXCEPT !.default = DefaultOf(instance.kwarg_definition)]
    ELSE instance

\* kwargs.get("default", Empty)
PassedDefault(kw) == IF "default" \in kw.passed THEN kw.default ELSE EmptyT

\* kwargs.get("extra", {})
PassedExtra(kw) == IF "extra" \in kw.passed THEN kw.extra ELSE EmptyDict

\* lines 416-422: the call of _extract_metadata
Extracted(t, kw, meta) ==
    _extract_metadata(t, IF "name" \in kw.passed THEN kw.name ELSE "", PassedDefault(kw),
                      meta, PassedExtra(kw))

\* the return statement of _extract_metadata reached from line 416, "none"
\* when it is not called
ExtractHow(t, kw, meta) ==
    IF KwargBranch(meta, kw) = "extract" THEN ExtractCase(t, PassedDefault(kw), meta)
    ELSE "none"

\* the metadata values of the annotation after the call: line 223 hands
\* them to _traverse_metadata
MetadataAfter(how, kw, meta) ==
    IF how = "metadata" THEN AfterTraverse(meta, PassedExtra(kw), FALSE).values ELSE meta

RECURSIVE ReplaceMeta(_, _)
\* the annotation received, its metadata values as the call leaves them
ReplaceMeta(t, meta) ==
    IF t.k = "Annotated"
    THEN [t EXCEPT !.a = <<ReplaceMeta(t.a[1], SubSeq(meta, Len(t.m) + 1, Len(meta)))>>,
                   !.m = SubSeq(meta, 1, Len(t.m))]
    ELSE IF t.k \in {"Required", "NotRequired"}
    THEN [t EXCEPT !.a = <<ReplaceMeta(t.a[1], meta)>>]
    ELSE t

\* the extra mapping passed in kwargs after the call: line 414 pops
\* "kwarg_definition" from it, _parse_metadata pops "example"
CallerExtraAfter(t, kw, meta, branch, how) ==
    CASE branch = "extra" -> Pop(kw.extra, "kwarg_definition")
      [] how \in {"default", "annotation", "metadata"} ->
            ExtraAfterTraverse(ExtractSource(how, t, PassedDefault(kw), meta), FALSE,
                               PassedExtra(kw))
      [] OTHER -> PassedExtra(kw)

\* lines 424-438: the instance built from kwargs, given the unwrapped
\* annotation u, its origin and args, the branch taken at lines 405-422 and
\* what _extract_metadata did and returned there; inner is the default of
\* inner_types. The field holds the objects it was given: a default or a
\* metadata value that _parse_metadata has changed is held as changed
Instance(t, kw, u, origin, args, branch, how, extracted, inner) ==
    FieldDefinition(
        IF "raw" \in kw.passed THEN kw.raw ELSE ReplaceMeta(t, MetadataAfter(how, kw, u.metadata)),
        u.annotation,
        IF "type_wrappers" \in kw.passed THEN kw.type_wrappers ELSE u.wrappers,
        IF "origin" \in kw.passed THEN kw.origin ELSE origin,
        IF "args" \in kw.passed THEN kw.args ELSE args,
        IF "metadata" \in kw.passed THEN kw.metadata
        ELSE IF branch = "metadata" THEN WithoutKwargs(u.metadata)
        ELSE MetadataAfter(how, kw, u.metadata),
        get_instantiable_origin(origin, u.annotation),
        get_safe_generic_origin(origin, u.annotation),
        IF "inner_types" \in kw.passed THEN kw.inner_types ELSE inner,
        IF branch = "default" \/ "default" \notin kw.passed THEN EmptyT
        ELSE IF how = "default" THEN AfterParse(kw.default, PassedExtra(kw))
        ELSE kw.default,
        CASE branch = "extra" -> Pop(kw.extra, "kwarg_definition")
          [] branch = "extract" -> extracted.extra
          [] OTHER -> PassedExtra(kw),
        CASE branch = "given" -> kw.kwarg_definition
          [] branch = "default" -> kw.default
          [] branch = "metadata" -> FirstWhereKwarg(u.metadata, TRUE)
          [] branch = "extra" -> KwargOfSpelling(Get(kw.extra, "kwarg_definition"))
          [] OTHER -> extracted.kwarg_definition,
        IF "name" \in kw.passed THEN kw.name ELSE "")

RECURSIVE from_annotation(_, _)
RECURSIVE FromUnwrapped(_, _, _, _)

\* lines 401-442, given the unwrapped annotation u and its args
FromUnwrapped(t, kw, u, args) ==
    WithKwargDefault(
        Instance(t, kw, u, GetOrigin(u.annotation), args, KwargBranch(u.metadata, kw),
                 ExtractHow(t, kw, u.metadata), Extracted(t, kw, u.metadata),
                 [i \in 1..Len(args) |-> from_annotation(args[i], NoKwargs)]))

\* lines 386-442
from_annotation(t, kw) ==
    FromUnwrapped(t, kw, unwrap_annotation(IF t # EmptyT THEN t ELSE AnyT),
                  ArgsOf(unwrap_annotation(IF t # EmptyT THEN t ELSE AnyT).annotation))

\* line 387: annotation is the positional parameter, so a keyword argument
\* of that name is a TypeError (multiple values for the argument)
from_annotation_raises(kw) == IF "annotation" \in kw.passed THEN "TypeError" ELSE "none"

\* the caller's extra mapping after from_annotation
ExtraAfterFromAnnotation(t, kw, u) ==
    CallerExtraAfter(t, kw, u.metadata, KwargBranch(u.metadata, kw),
                     ExtractHow(t, kw, u.metadata))

\* lines 468-481: the keyword arguments from_kwarg hands to from_annotation,
\* those that are None left out
KwargsOfFromKwarg(name, default, inner_types, kwarg_definition, ext) ==
    [NoKwargs EXCEPT
        !.passed = {"name"}
            \cup (IF inner_types.passed THEN {"inner_types"} ELSE {})
            \cup (IF kwarg_definition # NoneV THEN {"kwarg_definition"} ELSE {})
            \cup (IF ext.passed THEN {"extra"} ELSE {})
            \cup (IF default # NoneV THEN {"default"} ELSE {}),
        !.name = name,
        !.default = default,
        !.inner_types = inner_types.v,
        !.kwarg_definition = kwarg_definition,
        !.extra = ext.v]

\* lines 444-481
from_kwarg(t, name, default, inner_types, kwarg_definition, ext) ==
    from_annotation(t, KwargsOfFromKwarg(name, default, inner_types, kwarg_definition, ext))

\* issubclass(annotation, ImmutableState) at line 505: "TypeError" when the
\* annotation is no class
StateCheck(t) ==
    IF IsClass(t)
    THEN IF IsSubclass(t, {"ImmutableState"}) THEN "subclass" ELSE "not_subclass"
    ELSE "TypeError"

\* lines 483-516: the exception from_parameter raises, or "none"
from_parameter_raises(param, hint) ==
    IF hint = NotPassed THEN "ImproperlyConfiguredException"
    ELSE IF param.name = "state" /\ StateCheck(hint) = "TypeError" THEN "TypeError"
    ELSE IF param.name = "state" /\ StateCheck(hint) = "not_subclass"
    THEN "ImproperlyConfiguredException"
    ELSE "none"

\* inspect.Signature.empty
SignatureEmpty == Cls("Signature.empty")

\* lines 512-516: the field from_parameter returns when it raises nothing
from_parameter(param, hint) ==
    from_kwarg(hint, param.name,
               IF param.default = SignatureEmpty THEN EmptyT ELSE param.default,
               [passed |-> FALSE, v |-> <<>>], NoneV, [passed |-> FALSE, v |-> EmptyDict])

----------------------------------------------------------------------------
(* The derived properties of a FieldDefinition (lines 227-384).            *)

\* lines 332-335
is_union(f) == f.origin \in UnionTypes

\* lines 337-340
is_optional(f) == is_union(f) /\ \E i \in 1..Len(f.args) : f.args[i] = NoneTypeT

\* is_non_string_iterable without the optional-union case
is_non_string_iterable_raw(f) ==
    IF is_non_string_iterable_fn(f.annotation) THEN "True" ELSE "False"

\* lines 236-247: "True", "False", or "TypeError" when the field is optional
\* by its origin and args while make_non_optional_union raises for its
\* annotation: one without arguments other than None (a Union of no types)
\* or a Callable (its parameter list is unhashable)
is_non_string_iterable(f) ==
    IF ~is_optional(f)
    THEN (IF is_non_string_iterable_fn(f.annotation) THEN "True" ELSE "False")
    ELSE IF make_non_optional_union(f.annotation).k = "error" THEN "TypeError"
    ELSE IF is_non_string_iterable_fn(make_non_optional_union(f.annotation)) THEN "True"
    ELSE "False"

\* lines 249-260: "True", "False" or "TypeError", as is_non_string_iterable
is_non_string_sequence(f) ==
    IF ~is_optional(f)
    THEN (IF is_non_string_sequence_fn(f.annotation) THEN "True" ELSE "False")
    ELSE IF make_non_optional_union(f.annotation).k = "error" THEN "TypeError"
    ELSE IF is_non_string_sequence_fn(make_non_optional_union(f.annotation)) THEN "True"
    ELSE "False"

\* lines 262-265
is_any(f) == is_any_fn(f.annotation)

\* lines 267-270
is_generic(f) == is_generic_fn(f.annotation)

\* lines 327-330
is_type_var(f) == f.annotation.k = "typevar"

RECURSIVE is_subclass_of_any(_, _)
\* is_subclass_of with any() in place of all() over the members of a union
is_subclass_of_any(f, cls) ==
    IF f.origin # NoneV
    THEN IF f.origin \in UnionTypes
         THEN \E i \in 1..Len(f.inner_types) : is_subclass_of_any(f.inner_types[i], cls)
         ELSE is_class_and_subclass(f.origin, cls)
    ELSE IF f.annotation = AnyStrT
    THEN is_class_and_subclass(Cls("str"), cls) \/ is_class_and_subclass(Cls("bytes"), cls)
    ELSE f.annotation # AnyT /\ ~is_type_var(f) /\ is_class_and_subclass(f.annotation, cls)

RECURSIVE is_subclass_of(_, _)
\* lines 352-373
is_subclass_of(f, cls) ==
    IF f.origin # NoneV
    THEN IF f.origin \in UnionTypes
         THEN \A i \in 1..Len(f.inner_types) : is_subclass_of(f.inner_types[i], cls)
         ELSE f.origin \notin UnionTypes /\ is_class_and_subclass(f.origin, cls)
    ELSE IF f.annotation = AnyStrT
    THEN is_class_and_subclass(Cls("str"), cls) \/ is_class_and_subclass(Cls("bytes"), cls)
    ELSE f.annotation # AnyT /\ ~is_type_var(f) /\ is_class_and_subclass(f.annotation, cls)

\* lines 317-320
is_mapping(f) == is_subclass_of(f, {"Mapping"})

\* lines 322-325
is_tuple(f) == is_subclass_of(f, {"tuple"})

\* lines 342-345
is_collection(f) == is_subclass_of(f, {"Collection"})

\* lines 347-350
is_non_string_collection(f) == is_collection(f) /\ ~is_subclass_of(f, {"str", "bytes"})

\* is_simple_type without the is_generic test
is_simple_type_no_generic(f) ==
    ~(is_optional(f) \/ is_union(f) \/ is_mapping(f) \/ is_non_string_iterable(f) = "True")

\* lines 272-277: is_non_string_iterable is read only when is_optional is
\* False, and then it does not raise
is_simple_type(f) ==
    ~(is_generic(f) \/ is_optional(f) \/ is_union(f) \/ is_mapping(f)
        \/ is_non_string_iterable(f) = "True")

\* lines 279-282
is_parameter_field(f) == IsParameterKwarg(f.kwarg_definition)

\* lines 284-287
is_const(f) ==
    /\ TruthyObj(f.kwarg_definition)
    /\ Truthy(GetAttr(f.kwarg_definition, "const", "False"))

\* is_required with the kwarg_definition consulted before the wrappers
is_required_kwarg_first(f) ==
    IF IsParameterKwarg(f.kwarg_definition) /\ Attr(f.kwarg_definition, "required") # "None"
    THEN Attr(f.kwarg_definition, "required") = "True"
    ELSE IF "Required" \in f.type_wrappers THEN TRUE
    ELSE IF "NotRequired" \in f.type_wrappers THEN FALSE
    ELSE ~is_optional(f) /\ ~is_any(f) /\ (~has_default(f) \/ f.default = NoneV)

\* lines 289-300
is_required(f) ==
    IF "Required" \in f.type_wrappers THEN TRUE
    ELSE IF "NotRequired" \in f.type_wrappers THEN FALSE
    ELSE IF IsParameterKwarg(f.kwarg_definition) /\ Attr(f.kwarg_definition, "required") # "None"
    THEN Attr(f.kwarg_definition, "required") = "True"
    ELSE ~is_optional(f) /\ ~is_any(f) /\ (~has_default(f) \/ f.default = NoneV)

\* lines 302-305
is_annotated(f) == "Annotated" \in f.type_wrappers

\* lines 307-310
is_literal(f) == GetOrigin(f.annotation) = Form("Literal")

\* lines 312-315
is_forward_ref(f) == f.annotation.k = "str"

\* every property of the field, read once; is_non_string_iterable and
\* is_non_string_sequence are "TypeError" when reading them raises
Props(f) ==
    [has_default |-> has_default(f), is_non_string_iterable |-> is_non_string_iterable(f),
     is_non_string_sequence |-> is_non_string_sequence(f), is_any |-> is_any(f),
     is_generic |-> is_generic(f), is_simple_type |-> is_simple_type(f),
     is_parameter_field |-> is_parameter_field(f), is_const |-> is_const(f),
     is_required |-> is_required(f), is_annotated |-> is_annotated(f),
     is_literal |-> is_literal(f), is_forward_ref |-> is_forward_ref(f),
     is_mapping |-> is_mapping(f), is_tuple |-> is_tuple(f), is_type_var |-> is_type_var(f),
     is_union |-> is_union(f), is_optional |-> is_optional(f),
     is_collection |-> is_collection(f),
     is_non_string_collection |-> is_non_string_collection(f)]

\* no property has been read
NoProps ==
    [has_default |-> FALSE, is_non_string_iterable |-> "False",
     is_non_string_sequence |-> "False", is_any |-> FALSE, is_generic |-> FALSE,
     is_simple_type |-> FALSE, is_parameter_field |-> FALSE, is_const |-> FALSE,
     is_required |-> FALSE, is_annotated |-> FALSE, is_literal |-> FALSE,
     is_forward_ref |-> FALSE, is_mapping |-> FALSE, is_tuple |-> FALSE,
     is_type_var |-> FALSE, is_union |-> FALSE, is_optional |-> FALSE,
     is_collection |-> FALSE, is_non_string_collection |-> FALSE]

----------------------------------------------------------------------------
(* The inputs: annotations, metadata values, keyword arguments.            *)

IntT == Cls("int")
StrT == Cls("str")
ListT == Cls("list")
DictT == Cls("dict")
TupleT == Cls("tuple")
StateT == Cls("State")
FooT == Cls("Foo")

\* pydantic's conint(gt=1): a class carrying its constraints
ConInt == Obj("cls", "ConInt", <<>>, <<>>, Put(EmptyDict, "gt", "1"), EmptyDict)

\* annotated_types.Gt(1), MinLen(2), MaxLen(5)
Gt1 == Bag("Gt", Put(EmptyDict, "gt", "1"), EmptyDict)
Gt2 == Bag("Gt", Put(EmptyDict, "gt", "2"), EmptyDict)
MinLen2 == Bag("MinLen", Put(EmptyDict, "min_length", "2"), EmptyDict)
MaxLen5 == Bag("MaxLen", Put(EmptyDict, "max_length", "5"), EmptyDict)

\* pydantic Field(le=9) and Field(min_length=2, max_items=4, example="e2", foo=1)
FieldInfoLe == Bag("FieldInfo", Put(EmptyDict, "le", "9"), EmptyDict)
FieldInfoLen ==
    Bag("FieldInfo", Put(Put(EmptyDict, "min_length", "2"), "max_items", "4"),
        Put(Put(EmptyDict, "example", "e2"), "foo", "1"))

DTOFactory == Bag("AbstractDTOFactory", EmptyDict, EmptyDict)

BaseTypes ==
    {IntT, StrT, ListT, DictT, TupleT, StateT, FooT, NoneTypeT, AnyT, TypeVarT, AnyStrT, EmptyT,
     ConInt, DTOFactory, Cls("bytes"), Cls("ImmutableState")}

GenericTypes ==
    {Gen("list", <<IntT>>), Gen("list", <<NoneTypeT>>), Gen("dict", <<StrT, IntT>>),
     Gen("Sequence", <<StrT>>), Gen("Mapping", <<StrT, IntT>>), Gen("tuple", <<IntT, StrT>>),
     Gen("Foo", <<IntT>>), Gen("Literal", <<Str("a")>>),
     Gen("Callable", <<PList(<<IntT>>), StrT>>), Gen("Iterable", <<IntT>>)}

\* the unions of two to MaxUnion distinct members, one of the members being
\* Annotated[Union[dict, State], Gt(1)], a union inside a union's member
UnionTypesIn ==
    UNION {{MkUnion(s) :
              s \in {q \in [1..len -> {ListT, DictT, StrT, NoneTypeT, Gen("list", <<IntT>>),
                                        MkAnnotated(MkUnion(<<DictT, StateT>>), <<Gt1>>)}] :
                        \A i, j \in 1..len : i # j => q[i] # q[j]}} : len \in 2..MaxUnion}
        \cup {MkUnion(<<NoneTypeT, StrT, IntT>>), MkOptional(MkUnion(<<StrT, IntT>>))}
        \cup {MkUnion(<<IntT, AnyT>>), MkUnion(<<TypeVarT, NoneTypeT>>),
              MkUnion(<<ListT, TupleT>>), MkUnion(<<IntT, NoneTypeT>>),
              MkUnion(<<StateT, NoneTypeT>>), MkUnion(<<MkUnion(<<ListT, TupleT>>), NoneTypeT>>)}

\* the types that are given wrappers
WrapBase ==
    {IntT, ListT, AnyT, Gen("list", <<IntT>>), Gen("Callable", <<PList(<<IntT>>), StrT>>),
     MkUnion(<<IntT, NoneTypeT>>), MkUnion(<<ListT, NoneTypeT>>), MkUnion(<<ListT, DictT>>)}

WrappedTypes ==
    {MkAnnotated(t, ms) :
        t \in WrapBase,
        ms \in {<<Gt1>>, <<MinLen2, MaxLen5>>, <<Str("doc")>>, <<Predicate("str.islower")>>,
                <<ParameterKwarg("False", "Empty")>>, <<Gt1, ParameterKwarg("None", "1")>>,
                <<DependencyKwarg("Empty"), BodyKwarg("Empty"), Gt2>>, <<NoneV>>,
                <<FieldInfoLen>>}}
        \cup {Wrap("Required", t) : t \in WrapBase}
        \cup {Wrap("NotRequired", t) : t \in WrapBase}
        \cup {Wrap("Required", MkAnnotated(t, <<Gt1>>)) : t \in WrapBase}
        \cup {MkAnnotated(Wrap("NotRequired", t), <<MinLen2>>) : t \in WrapBase}
        \cup {Wrap("Required", Wrap("NotRequired", IntT)),
              MkAnnotated(MkAnnotated(IntT, <<Gt1>>), <<ParameterKwarg("True", "Empty")>>)}

Annotations == BaseTypes \cup GenericTypes \cup UnionTypesIn \cup WrappedTypes

\* the annotations tried with every combination of keyword arguments
CoreAnnotations ==
    {IntT, ListT, AnyT, EmptyT, ConInt, Gen("list", <<IntT>>), MkUnion(<<IntT, NoneTypeT>>),
     MkUnion(<<ListT, NoneTypeT>>), MkAnnotated(IntT, <<Gt1>>),
     MkAnnotated(ListT, <<MinLen2, MaxLen5>>),
     MkAnnotated(MkAnnotated(IntT, <<FieldInfoLen>>), <<Str("doc"), FieldInfoLen>>),
     MkAnnotated(IntT, <<ParameterKwarg("False", "Empty")>>),
     MkAnnotated(IntT, <<Gt1, ParameterKwarg("None", "1")>>),
     MkAnnotated(MkUnion(<<IntT, NoneTypeT>>), <<DependencyKwarg("7")>>),
     Wrap("Required", MkUnion(<<IntT, NoneTypeT>>)), Wrap("NotRequired", IntT),
     Wrap("Required", Wrap("NotRequired", IntT)), Wrap("Required", AnyT)}

\* the extra mappings given
Extras ==
    {EmptyDict,
     Put(Put(EmptyDict, "foo", "1"), "header", "h"),
     Put(EmptyDict, "example", "e1"),
     Put(Put(EmptyDict, "example", "0"), "foo", "None"),
     Put(Put(EmptyDict, "kwarg_definition", "ParameterKwarg(default=1)"), "foo", "1"),
     Put(Put(EmptyDict, "min_items", "9"), "max_length", "None")}

\* keyword arguments: a name, a default, a kwarg_definition and an extra
\* mapping, each passed or not
PlainKwargs ==
    {[NoKwargs EXCEPT !.passed = ps, !.name = IF "name" \in ps THEN nm ELSE "",
                      !.default = IF "default" \in ps THEN d ELSE NotPassed,
                      !.kwarg_definition = IF "kwarg_definition" \in ps THEN kd ELSE NotPassed,
                      !.extra = IF "extra" \in ps THEN ex ELSE EmptyDict] :
        ps \in SUBSET {"name", "default", "kwarg_definition", "extra"},
        nm \in {"x", "data"},
        d \in {EmptyT, EllipsisV, NoneV, Val("1"), ParameterKwarg("True", "Empty"),
               ParameterKwarg("None", "3"), DependencyKwarg("7"), FieldInfoLe, FieldInfoLen},
        kd \in {NoneV, ParameterKwarg("False", "Empty"), ParameterKwarg("None", "None"),
                BodyKwarg("5"), DependencyKwarg("Empty")},
        ex \in Extras}

\* keyword arguments that set a field of the result directly; annotation
\* is none of them, it is the name of the positional parameter
OverrideKwargs ==
    {[NoKwargs EXCEPT !.passed = {"raw"}, !.raw = StrT],
     [NoKwargs EXCEPT !.passed = {"annotation"}, !.annotation = StrT],
     [NoKwargs EXCEPT !.passed = {"origin", "args"}, !.origin = Cls("dict"),
                      !.args = <<StrT, NoneTypeT>>],
     [NoKwargs EXCEPT !.passed = {"origin", "args"}, !.origin = Form("Union"),
                      !.args = <<IntT, NoneTypeT>>],
     [NoKwargs EXCEPT !.passed = {"metadata"}, !.metadata = <<Gt2>>],
     [NoKwargs EXCEPT !.passed = {"type_wrappers"}, !.type_wrappers = {"Required"}],
     [NoKwargs EXCEPT !.passed = {"inner_types"}, !.inner_types = <<>>]}

\* the values handed to _parse_metadata, among them values with every
\* combination of the length attributes missing, None or set
ParseValues ==
    {Bag("Len", MkDict({"min_length", "max_length", "min_items", "max_items"},
                       [min_length |-> a1, max_length |-> a2, min_items |-> a3,
                        max_items |-> a4]), EmptyDict) :
        a1 \in {Absent, "None", "2"}, a2 \in {Absent, "None", "5"},
        a3 \in {Absent, "None", "3"}, a4 \in {Absent, "4"}} \cup
    {Gt1, FieldInfoLe, FieldInfoLen, Str("doc"), NoneV, ConInt,
     Bag("Doc", {<<"examples", "[e1,e2]">>, <<"title", "t">>, <<"description", "None">>},
         EmptyDict),
     Bag("Doc", Put(EmptyDict, "examples", "[]"), Put(EmptyDict, "example", "e2")),
     Bag("Case", {<<"to_lower", "True">>, <<"to_upper", "False">>, <<"pattern", "p">>},
         EmptyDict),
     Bag("Regex", {<<"regex", "r">>, <<"pattern", "p">>, <<"const", "1">>}, EmptyDict),
     Bag("Regex", {<<"regex", "None">>, <<"pattern", "p">>}, EmptyDict)}

\* the sequences handed to _traverse_metadata
MetaSeqs ==
    UNION {[1..len ->
              {Gt1, Gt2, MinLen2, FieldInfoLen, Str("doc"),
               Bag("Case", Put(EmptyDict, "pattern", "p"), EmptyDict),
               Predicate("str.islower"), Predicate("str.isdigit"), Predicate("str.isalpha"),
               MkAnnotated(IntT, <<Gt2, MinLen2>>), MkAnnotated(IntT, <<NoneV>>),
               MkAnnotated(StrT, <<MkAnnotated(IntT, <<Gt1, NoneV>>), MaxLen5>>)}] :
           len \in 0..MaxMeta}

\* the annotations given as type hints to from_parameter
HintTypes == BaseTypes \cup GenericTypes \cup CoreAnnotations \cup {NotPassed}

\* inspect.Parameter: its name and its default
Parameters ==
    {[name |-> nm, default |-> d] :
        nm \in {"x", "state", "data"},
        d \in {SignatureEmpty, NoneV, EllipsisV, Val("1"), ParameterKwarg("None", "3"),
               DependencyKwarg("7"), FieldInfoLe}}

\* the parameters of from_kwarg after the annotation
FromKwargArgs ==
    {[name |-> nm, default |-> d, inner_types |-> it, kwarg_definition |-> kd, extra |-> ex] :
        nm \in {"x", "data"},
        d \in {EmptyT, NoneV, Val("1"), ParameterKwarg("None", "3"), FieldInfoLen},
        it \in {[passed |-> FALSE, v |-> <<>>], [passed |-> TRUE, v |-> <<>>]},
        kd \in {NoneV, ParameterKwarg("False", "Empty"), DependencyKwarg("Empty")},
        ex \in {[passed |-> FALSE, v |-> EmptyDict], [passed |-> TRUE, v |-> EmptyDict],
                [passed |-> TRUE, v |-> Put(EmptyDict, "foo", "1")]}}

NoFromKwargArgs ==
    [name |-> "", default |-> EmptyT, inner_types |-> [passed |-> FALSE, v |-> <<>>],
     kwarg_definition |-> NoneV, extra |-> [passed |-> FALSE, v |-> EmptyDict]]

NoParameter == [name |-> "", default |-> SignatureEmpty]

\* no FieldDefinition: the call has not returned, or it raised
NoField ==
    FieldDefinition(NotPassed, NotPassed, {}, NoneV, <<>>, <<>>, NoneV, NoneV, <<>>,
                    NotPassed, EmptyDict, NoneV, "")

----------------------------------------------------------------------------
(* The state machine: a call with its arguments, then its return.          *)

\* a call about to run
Start(o, t, kw, fk, param, hint, v, meta, is_seq, ext, cls) ==
    /\ pc = "call"
    /\ op = o
    /\ arg_annotation = t
    /\ arg_kwargs = kw
    /\ arg_fk = fk
    /\ arg_parameter = param
    /\ arg_hints = hint
    /\ arg_value = v
    /\ arg_metadata = meta
    /\ arg_is_seq = is_seq
    /\ arg_extra = ext
    /\ arg_cl = cls
    /\ ret_field = NoField
    /\ ret_raised = "none"
    /\ ret_dict = EmptyDict
    /\ ret_obj = NotPassed
    /\ ret_extra = EmptyDict
    /\ ret_value = NotPassed
    /\ ret_metadata = <<>>
    /\ ret_bool = FALSE
    /\ ret_props = NoProps

Init ==
    \/ \E t \in Annotations, kw \in {NoKwargs} \cup OverrideKwargs :
           Start("from_annotation", t, kw, NoFromKwargArgs, NoParameter, NotPassed, NoneV,
                 <<>>, FALSE, EmptyDict, {})
    \/ \E t \in CoreAnnotations, kw \in PlainKwargs :
           Start("from_annotation", t, kw, NoFromKwargArgs, NoParameter, NotPassed, NoneV,
                 <<>>, FALSE, EmptyDict, {})
    \/ \E t \in CoreAnnotations, fk \in FromKwargArgs :
           Start("from_kwarg", t, NoKwargs, fk, NoParameter, NotPassed, NoneV,
                 <<>>, FALSE, EmptyDict, {})
    \/ \E param \in Parameters, hint \in HintTypes :
           Start("from_parameter", NotPassed, NoKwargs, NoFromKwargArgs, param, hint, NoneV,
                 <<>>, FALSE, EmptyDict, {})
    \/ \E v \in ParseValues, is_seq \in BOOLEAN, ext \in Extras :
           Start("_parse_metadata", NotPassed, NoKwargs, NoFromKwargArgs, NoParameter,
                 NotPassed, v, <<>>, is_seq, ext, {})
    \/ \E meta \in MetaSeqs, is_seq \in BOOLEAN,
          ext \in {EmptyDict, Put(EmptyDict, "example", "e1"), Put(EmptyDict, "foo", "1"),
                   Put(Put(EmptyDict, "gt", "7"), "example", "e2")} :
           Start("_traverse_metadata", NotPassed, NoKwargs, NoFromKwargArgs, NoParameter,
                 NotPassed, NoneV, meta, is_seq, ext, {})
    \/ \E t \in Annotations,
          cls \in {{"Mapping"}, {"tuple"}, {"Collection"}, {"str", "bytes"}, {"Sequence"},
                   {"int"}, {"list", "dict"}} :
           Start("is_subclass_of", t, NoKwargs, NoFromKwargArgs, NoParameter, NotPassed,
                 NoneV, <<>>, FALSE, EmptyDict, cls)
    \/ \E t \in UnionTypesIn \cup {IntT, Gen("Callable", <<PList(<<IntT>>), StrT>>)} :
           Start("make_non_optional_union", t, NoKwargs, NoFromKwargArgs, NoParameter,
                 NotPassed, NoneV, <<>>, FALSE, EmptyDict, {})

ArgVars == <<op, arg_annotation, arg_kwargs, arg_fk, arg_parameter, arg_hints, arg_value,
             arg_metadata, arg_is_seq, arg_extra, arg_cl>>

\* the call from_annotation(t, **kw) returns or raises; ret_extra is the
\* extra mapping passed in kw as the call leaves it
Called(t, kw) ==
    /\ ret_raised' = from_annotation_raises(kw)
    /\ ret_field' = IF ret_raised' = "none" THEN from_annotation(t, kw) ELSE NoField
    /\ ret_extra' = IF ret_raised' = "none"
                    THEN ExtraAfterFromAnnotation(t, kw,
                             unwrap_annotation(IF t # EmptyT THEN t ELSE AnyT))
                    ELSE PassedExtra(kw)
    /\ pc' = "returned"
    /\ UNCHANGED <<ArgVars, ret_dict, ret_obj, ret_value, ret_metadata, ret_bool, ret_props>>

\* FieldDefinition.from_annotation(annotation, **kwargs) returns or raises
FromAnnotation ==
    /\ pc = "call"
    /\ op \in {"from_annotation", "is_subclass_of"}
    /\ Called(arg_annotation, arg_kwargs)

\* FieldDefinition.from_kwarg(annotation, name, ...) returns
FromKwarg ==
    /\ pc = "call"
    /\ op = "from_kwarg"
    /\ Called(arg_annotation,
              KwargsOfFromKwarg(arg_fk.name, arg_fk.default, arg_fk.inner_types,
                                arg_fk.kwarg_definition, arg_fk.extra))

\* FieldDefinition.from_parameter(parameter, fn_type_hints) returns or raises
FromParameter ==
    /\ pc = "call"
    /\ op = "from_parameter"
    /\ ret_raised' = from_parameter_raises(arg_parameter, arg_hints)
    /\ ret_field' = IF ret_raised' = "none" THEN from_parameter(arg_parameter, arg_hints)
                    ELSE NoField
    /\ pc' = "returned"
    /\ UNCHANGED <<ArgVars, ret_dict, ret_obj, ret_extra, ret_value, ret_metadata, ret_bool,
                   ret_props>>

\* _parse_metadata(value, is_sequence_container, extra) returns
ParseMetadata ==
    /\ pc = "call"
    /\ op = "_parse_metadata"
    /\ ret_dict' = _parse_metadata(arg_value, arg_is_seq, arg_extra)
    /\ ret_extra' = ExtraAfterParse(arg_value, arg_extra)
    /\ ret_value' = AfterParse(arg_value, arg_extra)
    /\ pc' = "returned"
    /\ UNCHANGED <<ArgVars, ret_field, ret_raised, ret_obj, ret_metadata, ret_bool, ret_props>>

\* _traverse_metadata(metadata, is_sequence_container, extra) returns
TraverseMetadata ==
    /\ pc = "call"
    /\ op = "_traverse_metadata"
    /\ ret_dict' = _traverse_metadata(arg_metadata, arg_is_seq, arg_extra)
    /\ ret_extra' = ExtraAfterTraverse(arg_metadata, arg_is_seq, arg_extra)
    /\ ret_metadata' = AfterTraverse(arg_metadata, arg_extra, FALSE).values
    /\ pc' = "returned"
    /\ UNCHANGED <<ArgVars, ret_field, ret_raised, ret_obj, ret_value, ret_bool, ret_props>>

\* make_non_optional_union(annotation) returns
MakeNonOptionalUnion ==
    /\ pc = "call"
    /\ op = "make_non_optional_union"
    /\ ret_obj' = make_non_optional_union(arg_annotation)
    /\ pc' = "returned"
    /\ UNCHANGED <<ArgVars, ret_field, ret_raised, ret_dict, ret_extra, ret_value,
                   ret_metadata, ret_bool, ret_props>>

\* field.is_subclass_of(cl) on the field just built
IsSubclassOf ==
    /\ pc = "returned"
    /\ op = "is_subclass_of"
    /\ ret_bool' = is_subclass_of(ret_field, arg_cl)
    /\ pc' = "queried"
    /\ UNCHANGED <<ArgVars, ret_field, ret_raised, ret_dict, ret_obj, ret_extra, ret_value,
                   ret_metadata, ret_props>>

\* the properties of the field a constructor returned are read
ReadProperties ==
    /\ pc = "returned"
    /\ op \in {"from_annotation", "from_kwarg", "from_parameter"}
    /\ ret_raised = "none"
    /\ ret_props' = Props(ret_field)
    /\ pc' = "queried"
    /\ UNCHANGED <<ArgVars, ret_field, ret_raised, ret_dict, ret_obj, ret_extra, ret_value,
                   ret_metadata, ret_bool>>

Next ==
    \/ FromAnnotation
    \/ FromKwarg
    \/ FromParameter
    \/ ParseMetadata
    \/ TraverseMetadata
    \/ MakeNonOptionalUnion
    \/ IsSubclassOf
    \/ ReadProperties

Spec == Init /\ [][Next]_vars

----------------------------------------------------------------------------
(* The properties checked.                                                 *)

\* a call of o has returned, or raised
Returned(o) == pc # "call" /\ op = o

\* a call of o has returned a value
ReturnedValue(o) == Returned(o) /\ ret_raised = "none"

RECURSIVE Strip(_)
\* the object without the "example" of its extra mapping, and of those of
\* the objects it holds
Strip(v) ==
    [v EXCEPT !.ex = Pop(v.ex, "example"),
              !.a = [i \in 1..Len(v.a) |-> Strip(v.a[i])],
              !.m = [i \in 1..Len(v.m) |-> Strip(v.m[i])]]

\* after is the object before, which the call may have changed by popping
\* "example" from extra mappings, and in no other way
SameObject(after, before) ==
    /\ Strip(after) = Strip(before)
    /\ Strip(before) = before => after = before

\* the same of the items of a tuple
SameObjects(after, before) ==
    /\ Len(after) = Len(before)
    /\ \A i \in 1..Len(after) : SameObject(after[i], before[i])

\* a constructor has returned a field and its properties have been read
FieldQueried ==
    /\ pc = "queried"
    /\ op \in {"from_annotation", "from_kwarg", "from_parameter"}

RECURSIVE MembersOf(_)
\* the members of a union, those of the unions among them included; a type
\* that is no union is its own only member
MembersOf(t) ==
    IF unwrap_annotation(t).annotation.k = "union"
    THEN UNION {MembersOf(unwrap_annotation(t).annotation.a[i]) :
                    i \in 1..Len(unwrap_annotation(t).annotation.a)}
    ELSE {unwrap_annotation(t).annotation}

\* C1: is_subclass_of(cl) on a union field is True exactly when every member
\* of the union, nested unions flattened, is a subtype of cl; on a field
\* with an origin that is no union it is whether the origin is a class and
\* a subclass of cl.
C1_SubclassOfUnion ==
    (pc = "queried" /\ op = "is_subclass_of") =>
        /\ is_union(ret_field) =>
              ret_bool = (\A m \in MembersOf(arg_annotation) :
                             is_subclass_of(from_annotation(m, NoKwargs), arg_cl))
        /\ (~is_union(ret_field) /\ ret_field.origin # NoneV) =>
              ret_bool = (IsClass(ret_field.origin) /\ IsSubclass(ret_field.origin, arg_cl))

\* C1 witness: a union with a union inside one of its members, all of whose
\* members are subtypes of cl
C1_Witness ==
    /\ pc = "queried"
    /\ op = "is_subclass_of"
    /\ is_union(ret_field)
    /\ \E i \in 1..Len(ret_field.inner_types) : is_union(ret_field.inner_types[i])
    /\ ret_bool

\* C2: is_required is decided in order: a Required wrapper gives True, else
\* a NotRequired wrapper gives False, else a ParameterKwarg whose required
\* is not None gives that value, else it is True exactly when the field is
\* not optional, not Any, and has no default or the default None.
C2_IsRequiredOrder ==
    FieldQueried =>
        LET f == ret_field
            kd == f.kwarg_definition
            says == kd.k = "kd" /\ kd.n = "ParameterKwarg" /\ Attr(kd, "required") \in {"True", "False"}
        IN  /\ "Required" \in f.type_wrappers => ret_props.is_required
            /\ ("Required" \notin f.type_wrappers /\ "NotRequired" \in f.type_wrappers)
                  => ~ret_props.is_required
            /\ (f.type_wrappers \cap {"Required", "NotRequired"} = {} /\ says)
                  => (ret_props.is_required <=> Attr(kd, "required") = "True")
            /\ (f.type_wrappers \cap {"Required", "NotRequired"} = {} /\ ~says)
                  => (ret_props.is_required <=>
                        /\ ~ret_props.is_optional
                        /\ ~ret_props.is_any
                        /\ f.default \in {EmptyT, EllipsisV, NoneV})

\* C2 witness: a Required wrapper over an Optional annotation, with a
\* default and with kwarg_definition.required False, and the field required
C2_Witness ==
    /\ FieldQueried
    /\ "Required" \in ret_field.type_wrappers
    /\ ret_props.is_optional
    /\ ret_field.default = Val("1")
    /\ ret_field.kwarg_definition = ParameterKwarg("False", "Empty")
    /\ ret_props.is_required

\* C3: from_parameter raises ImproperlyConfiguredException and returns no
\* field when the name has no type hint, and when the parameter is named
\* "state" and its annotation is no subclass of ImmutableState; for every
\* other parameter it returns a field named as the parameter.
C3_FromParameterRaises ==
    Returned("from_parameter") =>
        IF \/ arg_hints = NotPassed
           \/ /\ arg_parameter.name = "state"
              /\ ~(IsClass(arg_hints) /\ IsSubclass(arg_hints, {"ImmutableState"}))
        THEN ret_raised = "ImproperlyConfiguredException" /\ ret_field = NoField
        ELSE ret_raised = "none" /\ ret_field.name = arg_parameter.name

\* C4: from_parameter carries the default through: no default and no
\* kwarg definition found give Empty; a default that is no KwargDefinition
\* or DependencyKwarg is the field's default, None included.
C4_DefaultCarried ==
    ReturnedValue("from_parameter") =>
        /\ (arg_parameter.default = SignatureEmpty /\ ~TruthyObj(ret_field.kwarg_definition))
              => ret_field.default = EmptyT
        /\ (arg_parameter.default # SignatureEmpty /\ ~IsKwargOrDependency(arg_parameter.default))
              => ret_field.default = arg_parameter.default

\* the default handed to from_annotation, Empty when none is
SuppliedDefault == PassedDefault(arg_kwargs)

\* the default handed to from_annotation is a KwargDefinition or a
\* DependencyKwarg and no kwarg_definition is given with it
DefaultMoved ==
    /\ IsKwargOrDependency(SuppliedDefault)
    /\ ~("kwarg_definition" \in arg_kwargs.passed /\ TruthyObj(arg_kwargs.kwarg_definition))

\* C5: from_annotation keeps a supplied default other than Empty and
\* Ellipsis (the object given: when it is a FieldInfo that the call parses,
\* with "example" popped from its extra mapping); without one, a field with
\* a kwarg_definition takes kwarg_definition.default, and a field without
\* keeps Empty or the Ellipsis supplied. A default that is a
\* KwargDefinition or DependencyKwarg, given without a kwarg_definition,
\* becomes the kwarg_definition and is not the field's default.
C5_DefaultRules ==
    ReturnedValue("from_annotation") =>
        /\ DefaultMoved =>
              /\ ret_field.kwarg_definition = SuppliedDefault
              /\ ret_field.default # SuppliedDefault
              /\ ret_field.default = DefaultOf(SuppliedDefault)
        /\ (~DefaultMoved /\ SuppliedDefault \notin {EmptyT, EllipsisV}) =>
              SameObject(ret_field.default, SuppliedDefault)
        /\ (~DefaultMoved /\ SuppliedDefault \in {EmptyT, EllipsisV}
                /\ TruthyObj(ret_field.kwarg_definition)) =>
              ret_field.default = DefaultOf(ret_field.kwarg_definition)
        /\ (~DefaultMoved /\ SuppliedDefault \in {EmptyT, EllipsisV}
                /\ ~TruthyObj(ret_field.kwarg_definition)) =>
              ret_field.default = SuppliedDefault

\* C5 witness: the default 1 is kept beside a kwarg_definition whose own
\* default is 5
C5_Witness ==
    /\ ReturnedValue("from_annotation")
    /\ SuppliedDefault = Val("1")
    /\ ret_field.kwarg_definition = BodyKwarg("5")
    /\ ret_field.default = Val("1")

\* tp is not NoneType
NotNoneType(t) == t # NoneTypeT

\* the union of the members s: of one member, that member
IsUnionOf(t, s) == IF Len(s) = 1 THEN t = s[1] ELSE t.k = "union" /\ t.a = s

Unwrapped == unwrap_annotation(IF arg_annotation = EmptyT THEN AnyT ELSE arg_annotation)

\* C7: without raw or annotation among the keyword arguments, raw is the
\* annotation received (the same object), and annotation, origin, args,
\* metadata and type_wrappers are those of the unwrapped annotation; an
\* Empty annotation gives raw Empty and annotation Any.
C7_AsStated ==
    (ReturnedValue("from_annotation") /\ arg_kwargs.passed \cap {"raw", "annotation"} = {}) =>
        /\ SameObject(ret_field.raw, arg_annotation)
        /\ ret_field.annotation = Unwrapped.annotation
        /\ ret_field.origin = GetOrigin(Unwrapped.annotation)
        /\ ret_field.args = GetArgs(Unwrapped.annotation)
        /\ SameObjects(ret_field.metadata, Unwrapped.metadata)
        /\ ret_field.type_wrappers = Unwrapped.wrappers
        /\ arg_annotation = EmptyT => (ret_field.raw = EmptyT /\ ret_field.annotation = AnyT)

\* C8: is_optional is True exactly when is_union is True and NoneType is
\* among args; is_simple_type is False whenever one of is_generic,
\* is_optional, is_union, is_mapping and is_non_string_iterable is True, and
\* True when all five are False. Reading is_non_string_iterable raises
\* TypeError on optional fields only, where is_simple_type does not read it.
C8_PropertiesConsistent ==
    FieldQueried =>
        /\ ret_props.is_optional <=>
              (ret_props.is_union /\ \E i \in 1..Len(ret_field.args) : ret_field.args[i] = NoneTypeT)
        /\ ret_props.is_optional => ret_props.is_union
        /\ (\/ ret_props.is_generic
            \/ ret_props.is_optional
            \/ ret_props.is_union
            \/ ret_props.is_mapping
            \/ ret_props.is_non_string_iterable = "True") => ~ret_props.is_simple_type
        /\ (/\ ~ret_props.is_generic
            /\ ~ret_props.is_optional
            /\ ~ret_props.is_union
            /\ ~ret_props.is_mapping
            /\ ret_props.is_non_string_iterable = "False") => ret_props.is_simple_type
        /\ ret_props.is_non_string_iterable = "TypeError" => ret_props.is_optional

\* C8 witness: a generic class that is no union, mapping or iterable is no
\* simple type
C8_Witness ==
    /\ FieldQueried
    /\ ret_props.is_generic
    /\ ~ret_props.is_union
    /\ ~ret_props.is_mapping
    /\ ret_props.is_non_string_iterable = "False"
    /\ ~ret_props.is_simple_type

LengthKeys == {"min_length", "max_length", "min_items", "max_items"}

\* the extra mapping _parse_metadata merges in supplies no length key
NoLengthInExtra == Keys(ChosenExtra(arg_value, arg_extra)) \cap LengthKeys = {}

\* the value of the key in the result when the attribute read for it is v:
\* None gives no key
KeyFor(v) == IF v = "None" THEN Absent ELSE v

\* the attribute first if the value has it (None included), else second if
\* the value has it, else None
FirstPresent(v, first, second) ==
    IF first \in Keys(v.at) THEN Get(v.at, first)
    ELSE IF ClassDefault(v, first) # Absent THEN ClassDefault(v, first)
    ELSE IF second \in Keys(v.at) THEN Get(v.at, second)
    ELSE IF ClassDefault(v, second) # Absent THEN ClassDefault(v, second)
    ELSE "None"

\* C9: for a sequence container the result of _parse_metadata has no
\* min_length or max_length and its min_items/max_items are the value's
\* min_items/max_items, or its min_length/max_length when the value has no
\* such attribute; otherwise it has no min_items or max_items and its
\* min_length/max_length are the value's (an extra mapping without these
\* keys). No key of the result has the value None.
C9_LengthBounds ==
    Returned("_parse_metadata") =>
        /\ (NoLengthInExtra /\ arg_is_seq) =>
              /\ Keys(ret_dict) \cap {"min_length", "max_length"} = {}
              /\ Get(ret_dict, "min_items") = KeyFor(FirstPresent(arg_value, "min_items", "min_length"))
              /\ Get(ret_dict, "max_items") = KeyFor(FirstPresent(arg_value, "max_items", "max_length"))
        /\ (NoLengthInExtra /\ ~arg_is_seq) =>
              /\ Keys(ret_dict) \cap {"min_items", "max_items"} = {}
              /\ Get(ret_dict, "min_length") = KeyFor(FirstPresent(arg_value, "min_length", "min_length"))
              /\ Get(ret_dict, "max_length") = KeyFor(FirstPresent(arg_value, "max_length", "max_length"))
        /\ \A p \in ret_dict : p[2] # "None"

\* C9 witness: a sequence container and a value with min_length 2 and no
\* min_items give min_items 2 and no min_length
C9_Witness ==
    /\ Returned("_parse_metadata")
    /\ arg_is_seq
    /\ NoLengthInExtra
    /\ "min_items" \notin Keys(arg_value.at)
    /\ Get(arg_value.at, "min_length") = "2"
    /\ Get(ret_dict, "min_items") = "2"
    /\ "min_length" \notin Keys(ret_dict)

\* v is not None
IsNotNoneValue(v) == v # NoneV

RECURSIVE Leaves(_)
\* the metadata sequence with every Annotated item replaced, in place, by
\* the leaves of its own metadata
Leaves(meta) ==
    IF meta = <<>> THEN <<>>
    ELSE (IF Head(meta).k = "Annotated"
          THEN Leaves(SelectSeq(Head(meta).m, IsNotNoneValue))
          ELSE <<Head(meta)>>) \o Leaves(Tail(meta))

\* the leaf is a Predicate of a recognised function
Recognised(v) ==
    v.k = "pred" /\ v.n \in {"str.islower", "str.isupper", "str.isascii", "str.isdigit"}

\* what the i-th leaf contributes: its predicate mapping, or what
\* _parse_metadata makes of it with the extra mapping as the parsed leaves
\* before it have left it
Contribution(leaves, i, is_seq, ext) ==
    IF Recognised(leaves[i]) THEN _unpack_predicate(leaves[i])
    ELSE _parse_metadata(leaves[i], is_seq,
                         IF \E j \in 1..(i - 1) : ~Recognised(leaves[j])
                         THEN Pop(ext, "example") ELSE ext)

\* the value of the key from the last leaf that sets it
LastWins(leaves, key, is_seq, ext) ==
    LET setters == {i \in 1..Len(leaves) : key \in Keys(Contribution(leaves, i, is_seq, ext))}
    IN  IF setters = {} THEN Absent
        ELSE Get(Contribution(leaves, CHOOSE i \in setters : \A j \in setters : j <= i,
                              is_seq, ext), key)

\* C10: _traverse_metadata merges the items left to right, the last item
\* setting a key winning; an Annotated item stands for its own metadata,
\* traversed at its position, and for nothing when it has none; a
\* recognised Predicate contributes its mapping only.
C10_TraverseMerge ==
    Returned("_traverse_metadata") =>
        /\ \A key \in DictKeys :
              Get(ret_dict, key) = LastWins(Leaves(arg_metadata), key, arg_is_seq, arg_extra)
        /\ (\A i \in 1..Len(arg_metadata) : Recognised(arg_metadata[i])) =>
              /\ Keys(ret_dict) \subseteq {"lower_case", "upper_case", "pattern"}
              /\ ret_extra = arg_extra

\* C10 witness: an Annotated item whose metadata sets gt to 2, then Gt(1):
\* the later item wins, and the nested min_length is there
C10_Witness ==
    /\ Returned("_traverse_metadata")
    /\ arg_metadata = <<MkAnnotated(IntT, <<Gt2, MinLen2>>), Gt1>>
    /\ ~arg_is_seq
    /\ Get(ret_dict, "gt") = "1"
    /\ Get(ret_dict, "min_length") = "2"

====
